---- MODULE Spec2Model ----
(***************************************************************************)
(* Job orchestration of blender-logo-render: the HTTP /render endpoint     *)
(* (server.py render_logo) and the serverless handler (rp_handler.py       *)
(* handler).  A request is materialised as a temp file, the render host    *)
(* is run under a timeout, its output is discovered, transcoded or         *)
(* uploaded, and a structured result or error is returned.                 *)
(*                                                                         *)
(* Numbers: the depths are Python floats.  A float is a record             *)
(* [nan, v] with v in thousandths; every comparison with NaN is false, as  *)
(* in Python.  Strings that the code splits or decodes are sequences of    *)
(* tokens.  The file system is the set of existing directories and the     *)
(* set of existing files.                                                  *)
(***************************************************************************)
EXTENDS Integers, Sequences, FiniteSets, TLC

\* ------------------------------------------------------------------ bounds
\* The render host leaves at most MaxFrames numbered frames behind.
MaxFrames == 2

\* ------------------------------------------------------- program constants
\* server.py:64  extrude_depth < 0.01 or extrude_depth > 1.0   (thousandths)
ExtrudeMin == 10
ExtrudeMax == 1000
\* server.py:68  bevel_depth < 0.0 or bevel_depth > 0.1
BevelMin == 0
BevelMax == 100
\* server.py:138  timeout=300
HttpRenderTimeout == 300
\* rp_handler.py:29  int(os.getenv('BLENDER_TIMEOUT_SECONDS', 1200))
DefaultTimeoutSeconds == 1200
\* s3_utils.py:59  ExpiresIn=604800
PresignExpiresIn == 604800

None == "<None>"

\* server.py:59, rp_handler.py:33
valid_materials == <<"flat", "glossy", "matte", "metallic", "chrome", "golden">>

\* server.py:99-106
http_blender_paths ==
  << "/blender-logo-render/blender-4.5.1-linux-x64/blender",
     "/usr/local/bin/blender",
     "/opt/blender-3.6.0-linux-x64/blender",
     "/Applications/Blender.app/Contents/MacOS/Blender",
     "/opt/homebrew/bin/blender",
     "blender" >>

\* rp_handler.py:63-67
rp_blender_paths ==
  << "/usr/local/bin/blender",
     "/opt/blender-3.6.0-linux-x64/blender",
     "blender" >>

Range(s) == {s[i] : i \in 1..Len(s)}

\* ------------------------------------------------------------------ floats
Float(x) == [nan |-> FALSE, v |-> x]
NaN == [nan |-> TRUE, v |-> 0]
\* Python's a < b and a > b on floats: false as soon as one side is NaN.
FLt(a, b) == ~a.nan /\ ~b.nan /\ a.v < b.v
FGt(a, b) == ~a.nan /\ ~b.nan /\ a.v > b.v

\* ----------------------------------------------------------- logo payload
\* A logo string is a sequence of tokens:
\*   "data:"  the five characters d a t a :
\*   ","      a comma
\*   "Q"      four characters of the base64 alphabet
\*   "A"      one character of the base64 alphabet
\*   "="      the pad character
\*   "!"      a character outside the alphabet
\* str.startswith('data:')
StartsWithData(s) == Len(s) > 0 /\ s[1] = "data:"

\* positions of the commas of s, in order
RECURSIVE CommaPositions(_, _)
CommaPositions(s, i) ==
  IF i > Len(s) THEN <<>>
  ELSE IF s[i] = "," THEN <<i>> \o CommaPositions(s, i + 1)
  ELSE CommaPositions(s, i + 1)

\* mutant: s.split(',')[-1], the text after the last comma, which never raises
SplitLast(s) ==
  LET cs == CommaPositions(s, 1) IN
  [ok |-> TRUE,
   text |-> IF Len(cs) = 0 THEN s ELSE SubSeq(s, cs[Len(cs)] + 1, Len(s))]

\* s.split(',')[1]: the text between the first and the second comma;
\* IndexError (ok = FALSE) when s holds no comma.
SplitSecond(s) ==
  LET cs == CommaPositions(s, 1) IN
  IF Len(cs) = 0 THEN [ok |-> FALSE, text |-> <<>>]
  ELSE LET from == cs[1] + 1
           to   == IF Len(cs) >= 2 THEN cs[2] - 1 ELSE Len(s)
       IN [ok |-> TRUE, text |-> SubSeq(s, from, to)]

\* base64.b64decode(s) with validate=False (binascii.a2b_base64, not strict):
\* characters outside the alphabet are skipped, a complete pad sequence ends
\* the parse, and a quad left incomplete at the end raises binascii.Error.
\* st = [quad_pos, pads, chars, stop].
B64Step(st, tok) ==
  IF st.stop THEN st
  ELSE IF tok = "=" THEN
    IF st.quad_pos >= 2 /\ st.quad_pos + st.pads + 1 >= 4
      THEN [st EXCEPT !.stop = TRUE, !.quad_pos = 0]
    ELSE IF st.quad_pos >= 2 THEN [st EXCEPT !.pads = st.pads + 1]
    ELSE st
  ELSE IF tok = "A" THEN
    [st EXCEPT !.pads = 0, !.quad_pos = (st.quad_pos + 1) % 4, !.chars = st.chars + 1]
  ELSE IF tok \in {"Q", "data:"} THEN
    [st EXCEPT !.pads = 0, !.chars = st.chars + 4]
  ELSE st

RECURSIVE B64Run(_, _, _)
B64Run(st, s, i) == IF i > Len(s) THEN st ELSE B64Run(B64Step(st, s[i]), s, i + 1)

B64Decode(s) ==
  LET fin == B64Run([quad_pos |-> 0, pads |-> 0, chars |-> 0, stop |-> FALSE], s, 1)
  IN [ok |-> fin.quad_pos = 0, chars |-> fin.chars]

\* server.py:72-86 and rp_handler.py:38-46: the body of the inner try.
\* logo = [given, text]; a logo that is not given is None, and
\* None.startswith raises AttributeError inside the try.
DecodeLogo(logo) ==
  IF ~logo.given THEN [ok |-> FALSE, chars |-> 0]
  ELSE IF StartsWithData(logo.text) THEN
    LET part == SplitSecond(logo.text) IN
    IF ~part.ok THEN [ok |-> FALSE, chars |-> 0] ELSE B64Decode(part.text)
  ELSE B64Decode(logo.text)

\* ------------------------------------------------------------- file system
TempDir(r)  == [k |-> "mkdtemp", r |-> r]
SysTmp      == [k |-> "/tmp", r |-> 0]
OutputDir   == [k |-> "/tmp/output", r |-> 0]

FileName(stem, n, ext) == [stem |-> stem, n |-> n, ext |-> ext]
File(dir, name) == [dir |-> dir, name |-> name]

\* tempfile.NamedTemporaryFile(suffix='.svg', delete=False): a fresh name
LogoFile(r)   == File(SysTmp, FileName("tmp", r, ".svg"))
FrameName(i)  == FileName("frame_", i, ".png")
VideoName     == FileName("rendered_animation", 0, ".mp4")
OutputMp4Name == FileName("output", 0, ".mp4")

\* file.startswith("frame_") and file.endswith(".png")
IsFrame(name) == name.stem = "frame_" /\ name.ext = ".png"

\* os.listdir(dir)
ListDir(fileSet, dir) == {f.name : f \in {g \in fileSet : g.dir = dir}}

\* mutant: the frames of earlier runs are left in the directory
ClearNothing(fileSet, dir) == fileSet

\* the loops "for file in os.listdir(d): if frame: os.remove(...)"
ClearFrames(fileSet, dir) == {f \in fileSet : ~(f.dir = dir /\ IsFrame(f.name))}

\* shutil.rmtree(dir)
RmTreeFiles(fileSet, dir) == {f \in fileSet : f.dir # dir}

\* What the render host may have left in its output directory when it ends or
\* is killed: nothing, the encoded video, or a numbered frame sequence (the two
\* render targets of configure_render).  The handlers see the host only through
\* its exit code and these files, so every combination is allowed here.
HostOutputs ==
  {{}} \cup {{VideoName}} \cup {{FrameName(i) : i \in 1..n} : n \in 1..MaxFrames}

\* mutant: the loop does not break and keeps the last path that exists
RECURSIVE LastExisting(_, _, _)
LastExisting(paths, installed, i) ==
  IF i > Len(paths) THEN None
  ELSE LET rest == LastExisting(paths, installed, i + 1) IN
         IF rest # None THEN rest
         ELSE IF paths[i] \in installed THEN paths[i] ELSE None

\* the first candidate path that exists (the for/break loops)
RECURSIVE FirstExisting(_, _, _)
FirstExisting(paths, installed, i) ==
  IF i > Len(paths) THEN None
  ELSE IF paths[i] \in installed THEN paths[i]
  ELSE FirstExisting(paths, installed, i + 1)


\* ------------------------------------------------------- object storage
Truthy(x) == x # None /\ x # ""

\* mutant: "is not None" in place of the truth tests on user_id and job_id
S3KeyNotNone(user_id, job_id, stamp) ==
  (IF user_id # None THEN <<"users/", user_id, "/renders/", stamp>>
   ELSE <<"renders/", stamp>>)
  \o (IF job_id # None THEN <<"_job_", job_id>> ELSE <<>>)
  \o <<".mp4">>

\* s3_utils.py:37-45: the key under which upload_video stores the file
S3Key(user_id, job_id, stamp) ==
  (IF Truthy(user_id) THEN <<"users/", user_id, "/renders/", stamp>>
   ELSE <<"renders/", stamp>>)
  \o (IF Truthy(job_id) THEN <<"_job_", job_id>> ELSE <<>>)
  \o <<".mp4">>

\* s3_utils.py:56-60: generate_presigned_url("get_object", Bucket, Key, ExpiresIn)
PresignedUrl(bucket_name, key, expires) ==
  <<"https://", bucket_name, "/">> \o key \o <<"?X-Amz-Expires=", ToString(expires)>>

\* mutant: a failure after upload_file still reports the key
UploadResultKeepsKey(bucket_name, user_id, job_id, stamp, how) ==
  LET key == S3Key(user_id, job_id, stamp)
      url == PresignedUrl(bucket_name, key, PresignExpiresIn)
  IN IF how = "ok"
       THEN [success |-> TRUE, url |-> url, presigned_url |-> url,
             s3_key |-> key, error |-> None]
       ELSE [success |-> FALSE, url |-> <<>>, presigned_url |-> <<>>,
             s3_key |-> IF how = "presign_fails" THEN key ELSE <<>>, error |-> how]

\* s3_utils.py:20-85: the dict upload_video returns.  how is what the storage
\* service does: "ok", "upload_fails" (upload_file raises) or
\* "presign_fails" (the object is stored and generate_presigned_url raises).
UploadResult(bucket_name, user_id, job_id, stamp, how) ==
  LET key == S3Key(user_id, job_id, stamp)
      url == PresignedUrl(bucket_name, key, PresignExpiresIn)
  IN IF how = "ok"
       THEN [success |-> TRUE, url |-> url, presigned_url |-> url,
             s3_key |-> key, error |-> None]
       ELSE [success |-> FALSE, url |-> <<>>, presigned_url |-> <<>>,
             s3_key |-> <<>>, error |-> how]

\* s3_utils.py:48-53: upload_file stores the object unless it raises
StoredKeys(user_id, job_id, stamp, how) ==
  IF how = "upload_fails" THEN {} ELSE {S3Key(user_id, job_id, stamp)}

\* -------------------------------------------------------------- responses
NoResp ==
  [status |-> "none", code |-> 0, msg |-> "", exc |-> "",
   output_url |-> <<>>, s3_key |-> <<>>, presigned_url |-> <<>>, frame_count |-> 0]

\* mutant: every HTTPException falls into "except Exception" and leaves as 500
HttpErrorAlways500(code, msg, exc) ==
  [NoResp EXCEPT !.status = "error", !.code = 500, !.msg = msg, !.exc = exc]

\* raise HTTPException(status_code=code, detail=msg + str(e))
HttpError(code, msg, exc) ==
  [NoResp EXCEPT !.status = "error", !.code = code, !.msg = msg, !.exc = exc]

\* return {"error": msg + str(e)}
RpError(msg, exc) ==
  [NoResp EXCEPT !.status = "error", !.msg = msg, !.exc = exc]

\* server.py:167-173
HttpCompleted(up) ==
  [NoResp EXCEPT !.status = "completed", !.code = 200,
                 !.msg = "Render completed successfully and uploaded to S3",
                 !.output_url = up.url, !.s3_key = up.s3_key,
                 !.presigned_url = up.presigned_url]

\* rp_handler.py:151-158
RpCompleted(output_files) ==
  [NoResp EXCEPT !.status = "completed",
                 !.msg = "Render completed successfully",
                 !.output_url = <<"data:video/mp4;base64,", "b64(output.mp4)">>,
                 !.frame_count = Cardinality(output_files)]

\* -------------------------------------------------------------- validation
\* mutant: the material check is left out
HttpValidationErrorNoMaterial(i) ==
  IF FLt(i.extrude_depth, Float(ExtrudeMin)) \/ FGt(i.extrude_depth, Float(ExtrudeMax))
    THEN "Extrude depth must be between 0.01 and 1.0"
  ELSE IF FLt(i.bevel_depth, Float(BevelMin)) \/ FGt(i.bevel_depth, Float(BevelMax))
    THEN "Bevel depth must be between 0.0 and 0.1"
  ELSE None

\* server.py:58-69: the detail of the HTTPException raised, or None
HttpValidationError(i) ==
  IF i.material \notin Range(valid_materials) THEN "Invalid material"
  ELSE IF FLt(i.extrude_depth, Float(ExtrudeMin)) \/ FGt(i.extrude_depth, Float(ExtrudeMax))
    THEN "Extrude depth must be between 0.01 and 1.0"
  ELSE IF FLt(i.bevel_depth, Float(BevelMin)) \/ FGt(i.bevel_depth, Float(BevelMax))
    THEN "Bevel depth must be between 0.0 and 0.1"
  ELSE None

\* rp_handler.py:32-35: the only parameter the serverless handler validates
RpValidationError(i) ==
  IF i.material \notin Range(valid_materials) THEN "Invalid material" ELSE None

\* server.py:83 / rp_handler.py:45: the inner "except Exception" is taken
DecodeRaised(d) == ~d.ok

\* rp_handler.py:29
TimeoutSeconds(envTimeout) ==
  IF envTimeout.set THEN envTimeout.v ELSE DefaultTimeoutSeconds

\* ------------------------------------------------------------------- state
Reqs == {1, 2}
Stamp(r) == IF r = 1 THEN "20250101_000001_1a2b3c4d" ELSE "20250101_000002_5e6f7a8b"
BucketName == "bucket"

VARIABLES
  pc,       \* pc[r]: where request r stands in its handler
  kind,     \* kind[r]: "http" (server.py) or "rp" (rp_handler.py)
  inp,      \* inp[r]: the request's parameters
  loc,      \* loc[r]: the handler's local variables
  resp,     \* resp[r]: what the handler raised or returned
  procs,    \* procs[r]: external processes and uploads started for r
  created,  \* created[r]: temp directories and files r created
  dirs,     \* existing directories
  files,    \* existing files
  rendered, \* rendered[r]: the files that hold what r's render process wrote
  env,      \* the process environment and the installed executables
  bucket,   \* the keys stored in the bucket
  script,   \* a run of render_logo.py on its own
  call      \* a call of S3Uploader.upload_video on its own

\* the runs of the render script and of the uploader outside a request
lib == <<script, call>>

vars == <<pc, kind, inp, loc, resp, procs, created, rendered, dirs, files, env, bucket,
          script, call>>

\* ------------------------------------------------------------ input samples
\* Requests are well typed: material is a string, the depths are floats (NaN
\* included), the logo is a string, or absent in a serverless event, and
\* BLENDER_TIMEOUT_SECONDS is unset or an integer.
Materials == {"golden", "chrome", "wood"}
ExtrudeDepths == {Float(9), Float(ExtrudeMin), Float(ExtrudeMax), Float(1001), NaN}
BevelDepths   == {Float(-1), Float(BevelMin), Float(BevelMax), Float(101), NaN}
LogoTexts ==
  { <<>>,
    <<"Q">>,
    <<"A", "A", "=", "=">>,
    <<"A">>,
    <<"Q", "A", "A">>,
    <<"!", "Q">>,
    <<"data:", ",", "Q">>,
    <<"data:", "Q">>,
    <<"data:", ",", "A">>,
    <<"data:", ",", "Q", ",", "A">>,
    <<"data:", ",", "A", ",", "Q">> }
GivenLogos == {[given |-> TRUE, text |-> t] : t \in LogoTexts}
NoLogo == [given |-> FALSE, text |-> <<>>]
UserIds == {None, "u1"}
JobIds  == {None, "j7"}

\* server.py:43-50: the form parameters (logo: str is required)
HttpInputs ==
  [logo : GivenLogos, material : Materials, extrude_depth : ExtrudeDepths,
   bevel_depth : BevelDepths, user_id : UserIds, job_id : JobIds]

\* rp_handler.py:18-23: event['input']; input_data.get('logo') may be None
RpInputs ==
  [logo : GivenLogos \cup {NoLogo}, material : Materials,
   extrude_depth : ExtrudeDepths, bevel_depth : BevelDepths,
   user_id : {None}, job_id : {None}]

NoInput ==
  [logo |-> NoLogo, material |-> "golden", extrude_depth |-> Float(100),
   bevel_depth |-> Float(20), user_id |-> None, job_id |-> None]

InstalledSets ==
  { {},
    {"/opt/blender-3.6.0-linux-x64/blender", "blender"},
    {"/opt/homebrew/bin/blender"} }

EnvTimeouts == {[set |-> FALSE, v |-> 0], [set |-> TRUE, v |-> 600]}

\* /tmp/output as an earlier run may have left it
StaleOutput == {File(OutputDir, FrameName(1)), File(OutputDir, OutputMp4Name)}

NoLoc ==
  [timeout_seconds |-> 0, image_data |-> 0, blender_cmd |-> None,
   render |-> "none", found |-> "unset", output_files |-> {}, ffmpeg |-> "none"]

NoProcs == [render |-> 0, ffmpeg |-> 0, upload |-> 0]
NoCreated == [dirs |-> {}, files |-> {}]
NoScript == [pc |-> "none"]
NoCall == [pc |-> "none"]

\* One request, to either handler, in an environment with or without the
\* render executable, the storage credentials and the timeout variable.
Init ==
  /\ \E k \in {"http", "rp"} :
       /\ kind = [r \in Reqs |-> IF r = 1 THEN k ELSE "none"]
       /\ pc = [r \in Reqs |-> IF r = 1 THEN (IF k = "http" THEN "h_start" ELSE "r_start")
                               ELSE "absent"]
       /\ \E i \in (IF k = "http" THEN HttpInputs ELSE RpInputs) :
            inp = [r \in Reqs |-> IF r = 1 THEN i ELSE NoInput]
       /\ \E inst \in InstalledSets, s3 \in BOOLEAN, t \in EnvTimeouts :
            \* the serverless handler never reads the storage credentials
            /\ k = "rp" => ~s3
            /\ env = [installed |-> inst, s3_configured |-> s3, timeout |-> t]
       /\ \E stale \in BOOLEAN :
            /\ k = "http" => ~stale
            /\ dirs = {SysTmp} \cup (IF stale THEN {OutputDir} ELSE {})
            /\ files = IF stale THEN StaleOutput ELSE {}
  /\ loc = [r \in Reqs |-> NoLoc]
  /\ resp = [r \in Reqs |-> NoResp]
  /\ procs = [r \in Reqs |-> NoProcs]
  /\ created = [r \in Reqs |-> NoCreated]
  /\ rendered = [r \in Reqs |-> {}]
  /\ bucket = {}
  /\ script = NoScript
  /\ call = NoCall


Upd(f, r, v) == [f EXCEPT ![r] = v]

\* the render host writes out into dir (render_logo.py makes the directory)
HostWrites(fileSet, dir, out) == fileSet \cup {File(dir, n) : n \in out}

\* the files w now hold what r's render process wrote: a file of the same
\* path that another request's process wrote before has been overwritten
Wrote(r, w) == [q \in Reqs |-> IF q = r THEN w ELSE rendered[q] \ w]

RenderOutcomes == {"timeout", "fail", "ok"}
UploadOutcomes == {"ok", "upload_fails", "presign_fails"}

\* ------------------------------------------- server.py: POST /render
\* mutant: the return code of the render host is not looked at
HttpAfterRenderIgnoresCode(how) ==
  CASE how = "timeout" ->
         [pc |-> "h_finally", unlink |-> FALSE,
          resp |-> HttpError(500, "Internal server error", "Command timed out after 300 seconds")]
    [] OTHER ->
         [pc |-> "h_check", unlink |-> TRUE, resp |-> NoResp]

\* server.py:138-146: what follows subprocess.run.  TimeoutExpired reaches
\* the outer "except Exception" and skips os.unlink(logo_path).
HttpAfterRender(how) ==
  CASE how = "timeout" ->
         [pc |-> "h_finally", unlink |-> FALSE,
          resp |-> HttpError(500, "Internal server error", "Command timed out after 300 seconds")]
    [] how = "fail" ->
         [pc |-> "h_finally", unlink |-> TRUE,
          resp |-> HttpError(500, "Render failed", "stderr")]
    [] OTHER ->
         [pc |-> "h_check", unlink |-> TRUE, resp |-> NoResp]

\* server.py:148-154
HttpAfterCheck(exists) ==
  IF ~exists
    THEN [pc |-> "h_finally", resp |-> HttpError(500, "Video file not generated", "")]
    ELSE [pc |-> "h_uploader", resp |-> NoResp]

\* server.py:164-176
HttpAfterUpload(up) ==
  IF up.success
    THEN [pc |-> "h_finally", resp |-> HttpCompleted(up)]
    ELSE [pc |-> "h_finally", resp |-> HttpError(500, "S3 upload failed", up.error)]

\* server.py:55
HttpMkdtemp(r) ==
  /\ pc[r] = "h_start"
  /\ dirs' = dirs \cup {TempDir(r)}
  /\ created' = Upd(created, r, [created[r] EXCEPT !.dirs = @ \cup {TempDir(r)}])
  /\ pc' = Upd(pc, r, "h_validate")
  /\ UNCHANGED <<lib, rendered, kind, inp, loc, resp, procs, files, env, bucket>>

\* server.py:58-69
HttpValidate(r) ==
  /\ pc[r] = "h_validate"
  /\ LET e == HttpValidationError(inp[r]) IN
       IF e # None
         THEN /\ resp' = Upd(resp, r, HttpError(400, e, ""))
              /\ pc' = Upd(pc, r, "h_finally")
         ELSE /\ pc' = Upd(pc, r, "h_decode")
              /\ UNCHANGED resp
  /\ UNCHANGED <<lib, rendered, kind, inp, loc, procs, created, dirs, files, env, bucket>>

\* server.py:71-86
HttpDecode(r) ==
  /\ pc[r] = "h_decode"
  /\ LET d == DecodeLogo(inp[r].logo) IN
       IF DecodeRaised(d)
         THEN /\ resp' = Upd(resp, r, HttpError(400, "Invalid base64 image data", "decode"))
              /\ pc' = Upd(pc, r, "h_finally")
              /\ UNCHANGED loc
         ELSE /\ loc' = Upd(loc, r, [loc[r] EXCEPT !.image_data = d.chars])
              /\ pc' = Upd(pc, r, "h_write")
              /\ UNCHANGED resp
  /\ UNCHANGED <<lib, rendered, kind, inp, procs, created, dirs, files, env, bucket>>

\* server.py:88-96
HttpWriteLogo(r) ==
  /\ pc[r] = "h_write"
  /\ files' = ClearFrames(files \cup {LogoFile(r)}, TempDir(r))
  /\ created' = Upd(created, r, [created[r] EXCEPT !.files = @ \cup {LogoFile(r)}])
  /\ pc' = Upd(pc, r, "h_find")
  /\ UNCHANGED <<lib, rendered, kind, inp, loc, resp, procs, dirs, env, bucket>>

\* server.py:98-120
HttpFindBlender(r) ==
  /\ pc[r] = "h_find"
  /\ LET cmd == FirstExisting(http_blender_paths, env.installed, 1) IN
       IF cmd = None
         THEN /\ resp' = Upd(resp, r, HttpError(500, "Blender not found", ""))
              /\ pc' = Upd(pc, r, "h_finally")
              /\ UNCHANGED loc
         ELSE /\ loc' = Upd(loc, r, [loc[r] EXCEPT !.blender_cmd = cmd])
              /\ pc' = Upd(pc, r, "h_run")
              /\ UNCHANGED resp
  /\ UNCHANGED <<lib, rendered, kind, inp, procs, created, dirs, files, env, bucket>>

\* server.py:123-138: subprocess.run starts the render host with
\* timeout=300; timeout_seconds stands for the timeout applied to the run
HttpStartRender(r) ==
  /\ pc[r] = "h_run"
  /\ procs' = Upd(procs, r, [procs[r] EXCEPT !.render = @ + 1])
  /\ loc' = Upd(loc, r, [loc[r] EXCEPT !.timeout_seconds = HttpRenderTimeout])
  /\ pc' = Upd(pc, r, "h_rendering")
  /\ UNCHANGED <<lib, rendered, kind, inp, resp, created, dirs, files, env, bucket>>

\* server.py:138-146: the render host ends, or is killed at the timeout
HttpRenderReturns(r) ==
  /\ pc[r] = "h_rendering"
  /\ \E how \in RenderOutcomes, out \in HostOutputs :
       LET a == HttpAfterRender(how)
           written == IF TempDir(r) \in dirs THEN HostWrites(files, TempDir(r), out) ELSE files
       IN /\ files' = IF a.unlink THEN written \ {LogoFile(r)} ELSE written
          /\ rendered' = Wrote(r, IF TempDir(r) \in dirs
                                     THEN {File(TempDir(r), n) : n \in out} ELSE {})
          /\ loc' = Upd(loc, r, [loc[r] EXCEPT !.render = how])
          /\ resp' = Upd(resp, r, a.resp)
          /\ pc' = Upd(pc, r, a.pc)
  /\ UNCHANGED <<lib, kind, inp, procs, created, dirs, env, bucket>>

\* server.py:148-156
HttpCheckVideo(r) ==
  /\ pc[r] = "h_check"
  /\ LET exists == File(TempDir(r), VideoName) \in files
         a == HttpAfterCheck(exists)
     IN /\ loc' = Upd(loc, r, [loc[r] EXCEPT !.found = IF exists THEN "yes" ELSE "no"])
        /\ resp' = Upd(resp, r, a.resp)
        /\ pc' = Upd(pc, r, a.pc)
  /\ UNCHANGED <<lib, rendered, kind, inp, procs, created, dirs, files, env, bucket>>

\* server.py:159-160, 177-178 and s3_utils.py:201-218
HttpCreateUploader(r) ==
  /\ pc[r] = "h_uploader"
  /\ IF env.s3_configured
       THEN /\ pc' = Upd(pc, r, "h_upload")
            /\ UNCHANGED resp
       ELSE /\ resp' = Upd(resp, r, HttpError(500, "S3 uploader not configured", ""))
            /\ pc' = Upd(pc, r, "h_finally")
  /\ UNCHANGED <<lib, rendered, kind, inp, loc, procs, created, dirs, files, env, bucket>>

\* server.py:161-176 and s3_utils.py:20-99
HttpUpload(r) ==
  /\ pc[r] = "h_upload"
  /\ \E how \in UploadOutcomes :
       LET up == UploadResult(BucketName, inp[r].user_id, inp[r].job_id, Stamp(r), how)
           a == HttpAfterUpload(up)
       IN /\ bucket' = bucket \cup StoredKeys(inp[r].user_id, inp[r].job_id, Stamp(r), how)
          /\ resp' = Upd(resp, r, a.resp)
          /\ pc' = Upd(pc, r, a.pc)
  /\ procs' = Upd(procs, r, [procs[r] EXCEPT !.upload = @ + 1])
  /\ UNCHANGED <<lib, rendered, kind, inp, loc, created, dirs, files, env>>

\* mutant: the finally clause leaves the working directory in place
HttpFinallyKeepsDir(r) ==
  /\ pc[r] = "h_finally"
  /\ pc' = Upd(pc, r, "done")
  /\ UNCHANGED <<lib, rendered, kind, inp, loc, resp, procs, created, dirs, files, env, bucket>>

\* server.py:185-191: shutil.rmtree(temp_dir), then the response leaves
HttpFinally(r) ==
  /\ pc[r] = "h_finally"
  /\ dirs' = dirs \ {TempDir(r)}
  /\ files' = RmTreeFiles(files, TempDir(r))
  /\ pc' = Upd(pc, r, "done")
  /\ UNCHANGED <<lib, rendered, kind, inp, loc, resp, procs, created, env, bucket>>

HttpStep(r) ==
  \/ HttpMkdtemp(r)
  \/ HttpValidate(r)
  \/ HttpDecode(r)
  \/ HttpWriteLogo(r)
  \/ HttpFindBlender(r)
  \/ HttpStartRender(r)
  \/ HttpRenderReturns(r)
  \/ HttpCheckVideo(r)
  \/ HttpCreateUploader(r)
  \/ HttpUpload(r)
  \/ HttpFinally(r)


\* ------------------------------------------- rp_handler.py: handler(event)
\* mutant: a failed render is run again
RpAfterRenderRetry(how, timeout_seconds) ==
  CASE how = "timeout" ->
         [pc |-> "done", unlink |-> FALSE,
          resp |-> RpError("Render timed out", ToString(timeout_seconds))]
    [] how = "fail" ->
         [pc |-> "r_run", unlink |-> FALSE, resp |-> NoResp]
    [] OTHER ->
         [pc |-> "r_discover", unlink |-> TRUE, resp |-> NoResp]

\* rp_handler.py:94-104 and 160-162: what follows subprocess.run(cmd).
\* TimeoutExpired reaches "except subprocess.TimeoutExpired" and skips
\* os.unlink(logo_path).
RpAfterRender(how, timeout_seconds) ==
  CASE how = "timeout" ->
         [pc |-> "done", unlink |-> FALSE,
          resp |-> RpError("Render timed out", ToString(timeout_seconds))]
    [] how = "fail" ->
         [pc |-> "done", unlink |-> TRUE, resp |-> RpError("Render failed", "stderr")]
    [] OTHER ->
         [pc |-> "r_discover", unlink |-> TRUE, resp |-> NoResp]

\* rp_handler.py:106-110
FindOutputFiles(fileSet, dir) == {n \in ListDir(fileSet, dir) : IsFrame(n)}

\* mutant: the check for an empty list of frames is left out
RpAfterDiscoverNoCheck(output_files) == [pc |-> "r_ffmpeg", resp |-> NoResp]

\* rp_handler.py:112-114
RpAfterDiscover(output_files) ==
  IF output_files = {}
    THEN [pc |-> "done", resp |-> RpError("No output files generated", "")]
    ELSE [pc |-> "r_ffmpeg", resp |-> NoResp]

\* rp_handler.py:137-141 and 160-162: what follows subprocess.run(ffmpeg_cmd).
\* Its TimeoutExpired reaches the same except clause as the render's.
RpAfterFfmpeg(how, timeout_seconds) ==
  CASE how = "timeout" ->
         [pc |-> "done", resp |-> RpError("Render timed out", ToString(timeout_seconds))]
    [] how = "fail" ->
         [pc |-> "done", resp |-> RpError("Video creation failed", "stderr")]
    [] OTHER ->
         [pc |-> "r_read", resp |-> NoResp]

\* rp_handler.py:18-30
RpReadInput(r) ==
  /\ pc[r] = "r_start"
  /\ loc' = Upd(loc, r, [loc[r] EXCEPT !.timeout_seconds = TimeoutSeconds(env.timeout)])
  /\ pc' = Upd(pc, r, "r_validate")
  /\ UNCHANGED <<lib, rendered, kind, inp, resp, procs, created, dirs, files, env, bucket>>

\* rp_handler.py:32-35
RpValidate(r) ==
  /\ pc[r] = "r_validate"
  /\ LET e == RpValidationError(inp[r]) IN
       IF e # None
         THEN /\ resp' = Upd(resp, r, RpError(e, ""))
              /\ pc' = Upd(pc, r, "done")
         ELSE /\ pc' = Upd(pc, r, "r_decode")
              /\ UNCHANGED resp
  /\ UNCHANGED <<lib, rendered, kind, inp, loc, procs, created, dirs, files, env, bucket>>

\* rp_handler.py:37-46
RpDecode(r) ==
  /\ pc[r] = "r_decode"
  /\ LET d == DecodeLogo(inp[r].logo) IN
       IF DecodeRaised(d)
         THEN /\ resp' = Upd(resp, r, RpError("Invalid base64 image data", "decode"))
              /\ pc' = Upd(pc, r, "done")
              /\ UNCHANGED loc
         ELSE /\ loc' = Upd(loc, r, [loc[r] EXCEPT !.image_data = d.chars])
              /\ pc' = Upd(pc, r, "r_write")
              /\ UNCHANGED resp
  /\ UNCHANGED <<lib, rendered, kind, inp, procs, created, dirs, files, env, bucket>>

\* rp_handler.py:48-51
RpWriteLogo(r) ==
  /\ pc[r] = "r_write"
  /\ files' = files \cup {LogoFile(r)}
  /\ created' = Upd(created, r, [created[r] EXCEPT !.files = @ \cup {LogoFile(r)}])
  /\ pc' = Upd(pc, r, "r_outdir")
  /\ UNCHANGED <<lib, rendered, kind, inp, loc, resp, procs, dirs, env, bucket>>

\* rp_handler.py:53-60
RpPrepareOutput(r) ==
  /\ pc[r] = "r_outdir"
  /\ dirs' = dirs \cup {OutputDir}
  /\ created' = Upd(created, r, [created[r] EXCEPT !.dirs = @ \cup ({OutputDir} \ dirs)])
  /\ files' = ClearFrames(files, OutputDir)
  /\ pc' = Upd(pc, r, "r_find")
  /\ UNCHANGED <<lib, rendered, kind, inp, loc, resp, procs, env, bucket>>

\* rp_handler.py:62-78
RpFindBlender(r) ==
  /\ pc[r] = "r_find"
  /\ LET cmd == FirstExisting(rp_blender_paths, env.installed, 1) IN
       IF cmd = None
         THEN /\ resp' = Upd(resp, r, RpError("Blender not found", ""))
              /\ pc' = Upd(pc, r, "done")
              /\ UNCHANGED loc
         ELSE /\ loc' = Upd(loc, r, [loc[r] EXCEPT !.blender_cmd = cmd])
              /\ pc' = Upd(pc, r, "r_run")
              /\ UNCHANGED resp
  /\ UNCHANGED <<lib, rendered, kind, inp, procs, created, dirs, files, env, bucket>>

\* rp_handler.py:94: subprocess.run starts the render host
RpStartRender(r) ==
  /\ pc[r] = "r_run"
  /\ procs' = Upd(procs, r, [procs[r] EXCEPT !.render = @ + 1])
  /\ pc' = Upd(pc, r, "r_rendering")
  /\ UNCHANGED <<lib, rendered, kind, inp, loc, resp, created, dirs, files, env, bucket>>

\* rp_handler.py:94-104: the render host ends, or is killed at the timeout
RpRenderReturns(r) ==
  /\ pc[r] = "r_rendering"
  /\ \E how \in RenderOutcomes, out \in HostOutputs :
       LET a == RpAfterRender(how, loc[r].timeout_seconds)
           written == HostWrites(files, OutputDir, out)
       IN /\ files' = IF a.unlink THEN written \ {LogoFile(r)} ELSE written
          /\ rendered' = Wrote(r, {File(OutputDir, n) : n \in out})
          /\ loc' = Upd(loc, r, [loc[r] EXCEPT !.render = how])
          /\ resp' = Upd(resp, r, a.resp)
          /\ pc' = Upd(pc, r, a.pc)
  /\ UNCHANGED <<lib, kind, inp, procs, created, dirs, env, bucket>>

\* rp_handler.py:106-118
RpDiscover(r) ==
  /\ pc[r] = "r_discover"
  /\ LET found == FindOutputFiles(files, OutputDir)
         a == RpAfterDiscover(found)
     IN /\ loc' = Upd(loc, r, [loc[r] EXCEPT !.output_files = found,
                                             !.found = IF found = {} THEN "no" ELSE "yes"])
        /\ resp' = Upd(resp, r, a.resp)
        /\ pc' = Upd(pc, r, a.pc)
  /\ UNCHANGED <<lib, rendered, kind, inp, procs, created, dirs, files, env, bucket>>

\* rp_handler.py:137: subprocess.run starts ffmpeg, or raises FileNotFoundError
\* (caught at 163-165) when no ffmpeg is installed
RpStartFfmpeg(r) ==
  /\ pc[r] = "r_ffmpeg"
  /\ \E installed \in BOOLEAN :
       IF installed
         THEN /\ procs' = Upd(procs, r, [procs[r] EXCEPT !.ffmpeg = @ + 1])
              /\ loc' = Upd(loc, r, [loc[r] EXCEPT !.ffmpeg = "started"])
              /\ pc' = Upd(pc, r, "r_encoding")
              /\ UNCHANGED resp
         ELSE /\ loc' = Upd(loc, r, [loc[r] EXCEPT !.ffmpeg = "missing"])
              /\ resp' = Upd(resp, r, RpError("Internal server error", "No such file or directory: ffmpeg"))
              /\ pc' = Upd(pc, r, "done")
              /\ UNCHANGED procs
  /\ UNCHANGED <<lib, rendered, kind, inp, created, dirs, files, env, bucket>>

\* rp_handler.py:137-141: ffmpeg ends, or is killed at its timeout
RpFfmpegReturns(r) ==
  /\ pc[r] = "r_encoding"
  /\ \E how \in RenderOutcomes :
       LET a == RpAfterFfmpeg(how, loc[r].timeout_seconds) IN
       /\ files' = IF how = "ok" THEN files \cup {File(OutputDir, OutputMp4Name)} ELSE files
       /\ loc' = Upd(loc, r, [loc[r] EXCEPT !.ffmpeg = how])
       /\ resp' = Upd(resp, r, a.resp)
       /\ pc' = Upd(pc, r, a.pc)
  /\ UNCHANGED <<lib, rendered, kind, inp, procs, created, dirs, env, bucket>>

\* rp_handler.py:143-158
RpReadVideo(r) ==
  /\ pc[r] = "r_read"
  /\ resp' = Upd(resp, r,
       IF File(OutputDir, OutputMp4Name) \in files
         THEN RpCompleted(loc[r].output_files)
         ELSE RpError("Internal server error", "No such file or directory: output.mp4"))
  /\ pc' = Upd(pc, r, "done")
  /\ UNCHANGED <<lib, rendered, kind, inp, loc, procs, created, dirs, files, env, bucket>>

RpStep(r) ==
  \/ RpReadInput(r)
  \/ RpValidate(r)
  \/ RpDecode(r)
  \/ RpWriteLogo(r)
  \/ RpPrepareOutput(r)
  \/ RpFindBlender(r)
  \/ RpStartRender(r)
  \/ RpRenderReturns(r)
  \/ RpDiscover(r)
  \/ RpStartFfmpeg(r)
  \/ RpFfmpegReturns(r)
  \/ RpReadVideo(r)

Next == \E r \in Reqs : HttpStep(r) \/ RpStep(r)

Spec == Init /\ [][Next]_vars

\* ------------------------------------------------------------------ claims
Active == {r \in Reqs : kind[r] # "none"}
Returned(r) == pc[r] = "done"
Rejected(r) == resp[r].status = "error"
NoProcessStarted(r) == procs[r] = NoProcs
NoLogoFileWritten(r) == LogoFile(r) \notin files /\ LogoFile(r) \notin created[r].files
\* x lies in the closed interval [lo, hi]
InRange(x, lo, hi) == ~x.nan /\ lo <= x.v /\ x.v <= hi
DepthOutOfRange(i) ==
  \/ ~InRange(i.extrude_depth, ExtrudeMin, ExtrudeMax)
  \/ ~InRange(i.bevel_depth, BevelMin, BevelMax)
NothingLeftBehind(r) ==
  /\ created[r].files \cap files = {}
  /\ created[r].dirs \cap dirs = {}
IdentifiesTimeout(rsp) ==
  \/ rsp.msg = "Render timed out"
  \/ rsp.exc = "Command timed out after 300 seconds"
NoOutputMessages == {"Video file not generated", "No output files generated"}
InputErrorMessages ==
  {"Invalid material", "Extrude depth must be between 0.01 and 1.0",
   "Bevel depth must be between 0.0 and 0.1", "Invalid base64 image data"}

\* C1: POST /render: a request whose extrude_depth is outside [0.01, 1.0] or
\* whose bevel_depth is outside [0.0, 0.1] is rejected with HTTP 400 and no
\* render host and no upload is ever started for it.
C1_OutOfRangeRejectedBeforeProcess ==
  \A r \in Reqs :
    (kind[r] = "http" /\ DepthOutOfRange(inp[r])) =>
      /\ NoProcessStarted(r)
      /\ Returned(r) => (Rejected(r) /\ resp[r].code = 400)

\* C1, the part the endpoint does enforce: a depth that compares below the
\* lower or above the upper limit is rejected with HTTP 400 before any process.
C1_ComparableOutOfRangeRejected ==
  \A r \in Reqs :
    /\ kind[r] = "http"
    /\ \/ FLt(inp[r].extrude_depth, Float(ExtrudeMin)) \/ FGt(inp[r].extrude_depth, Float(ExtrudeMax))
       \/ FLt(inp[r].bevel_depth, Float(BevelMin)) \/ FGt(inp[r].bevel_depth, Float(BevelMax))
    => /\ NoProcessStarted(r)
       /\ Returned(r) => (Rejected(r) /\ resp[r].code = 400)

\* C2: serverless handler: an event whose extrude_depth or bevel_depth is out
\* of range gets an error and the render host is never started for it.
C2_RpOutOfRangeRejectedBeforeProcess ==
  \A r \in Reqs :
    (kind[r] = "rp" /\ DepthOutOfRange(inp[r])) =>
      /\ procs[r].render = 0
      /\ Returned(r) => Rejected(r)

Undecodable(logo) ==
  \/ ~logo.given
  \/ StartsWithData(logo.text) /\ "," \notin Range(logo.text)
  \/ ~DecodeLogo(logo).ok

PassesEarlierChecks(r) ==
  IF kind[r] = "http" THEN HttpValidationError(inp[r]) = None
  ELSE RpValidationError(inp[r]) = None

C5_TimeoutLeavesNothing ==
  \A r \in Active :
    (Returned(r) /\ loc[r].render = "timeout") =>
      /\ Rejected(r)
      /\ IdentifiesTimeout(resp[r])
      /\ NothingLeftBehind(r)

\* C6: both handlers, every outcome: every temp file and temp directory the
\* request created has been removed when the response is returned.
C6_CleanupOnEveryExit ==
  \A r \in Active : Returned(r) => NothingLeftBehind(r)

\* C7: both handlers: when the render host exits 0 and the expected artifact
\* is not in the output directory, the request fails with a 'no output
\* generated' error, never completes, and neither ffmpeg nor an upload is
\* started.
C7_NoOutputFails ==
  \A r \in Active :
    (loc[r].render = "ok" /\ loc[r].found = "no") =>
      /\ procs[r].ffmpeg = 0
      /\ procs[r].upload = 0
      /\ Rejected(r)
      /\ resp[r].msg \in NoOutputMessages
      /\ pc[r] \in {"h_finally", "done"}

C7_Witness ==
  \E r \in Active :
    /\ Returned(r)
    /\ loc[r].render = "ok"
    /\ loc[r].found = "no"
    /\ resp[r].msg \in NoOutputMessages

\* C8: POST /render: when the render succeeded and the upload then fails, the
\* rendered video file still exists when the request returns.
C8_UploadFailureKeepsArtifact ==
  \A r \in Reqs :
    (kind[r] = "http" /\ Returned(r) /\ resp[r].msg = "S3 upload failed") =>
      File(TempDir(r), VideoName) \in files

\* C9: every request ends either completed with a non-empty output reference
\* or as an error with a message and no output reference; the serverless
\* handler always returns one of the two, and the endpoint answers 400 to an
\* invalid input and 500 to every other failure.
C9_StructuredOutcome ==
  /\ \A r \in Active :
       Returned(r) =>
         \/ /\ resp[r].status = "completed"
            /\ Len(resp[r].output_url) > 0
            /\ resp[r].exc = ""
            /\ kind[r] = "http" => resp[r].code = 200
         \/ /\ resp[r].status = "error"
            /\ resp[r].msg # ""
            /\ resp[r].output_url = <<>>
            /\ resp[r].s3_key = <<>>
            /\ resp[r].presigned_url = <<>>
            /\ kind[r] = "http" =>
                 /\ resp[r].code \in {400, 500}
                 /\ resp[r].code = 400 <=> resp[r].msg \in InputErrorMessages
  \* no handler stops anywhere but at its return
  /\ (\A r \in Active : Returned(r)) \/ ENABLED Next

C9_Witness ==
  \E r \in Active :
    /\ Returned(r) /\ kind[r] = "http"
    /\ resp[r].status = "completed"
    /\ Len(resp[r].output_url) > 0

\* C10: within one request the render host is started at most once, ffmpeg
\* at most once and the upload at most once, whatever their outcome.
C10_NoRetry ==
  \A r \in Active :
    /\ procs[r].render <= 1
    /\ procs[r].ffmpeg <= 1
    /\ procs[r].upload <= 1

C10_Witness ==
  \E r \in Active :
    /\ Returned(r)
    /\ procs[r].render = 1
    /\ loc[r].render \in {"timeout", "fail"}

\* the timeout the environment supplies: the value of BLENDER_TIMEOUT_SECONDS,
\* or the handler's own default when the variable is unset
SuppliedTimeout(k) ==
  IF env.timeout.set THEN env.timeout.v
  ELSE IF k = "http" THEN HttpRenderTimeout ELSE DefaultTimeoutSeconds

\* C12: in both handlers the timeout applied to the render process is the
\* value of BLENDER_TIMEOUT_SECONDS, or the default when the variable is unset.
C12_TimeoutFromEnvironment ==
  \A r \in Active :
    procs[r].render > 0 => loc[r].timeout_seconds = SuppliedTimeout(kind[r])

\* C12, the part that holds: the serverless handler applies the timeout the
\* environment supplies.
C12_RpTimeoutFromEnvironment ==
  \A r \in Active :
    (kind[r] = "rp" /\ procs[r].render > 0) =>
      loc[r].timeout_seconds = SuppliedTimeout("rp")

\* ===================================================== render_logo.py alone
\* A string the script lowercases is a sequence of characters.
UpperCase == <<"A", "B", "C", "D", "E", "F", "G", "H", "I", "J", "K", "L", "M",
               "N", "O", "P", "Q", "R", "S", "T", "U", "V", "W", "X", "Y", "Z">>
LowerCase == <<"a", "b", "c", "d", "e", "f", "g", "h", "i", "j", "k", "l", "m",
               "n", "o", "p", "q", "r", "s", "t", "u", "v", "w", "x", "y", "z">>

\* str.lower()
LowerChar(c) ==
  IF \E i \in 1..Len(UpperCase) : UpperCase[i] = c
    THEN LowerCase[CHOOSE i \in 1..Len(UpperCase) : UpperCase[i] = c]
    ELSE c
Lower(s) == [i \in 1..Len(s) |-> LowerChar(s[i])]

Transparent == <<"t", "r", "a", "n", "s", "p", "a", "r", "e", "n", "t">>
Opaque == <<"o", "p", "a", "q", "u", "e">>

\* render_logo.py:9-18: the arguments after "--"; argv[5] of the source is
\* the sixth argument, argv[6] here
ParseArgsDefaultTransparent(argv) ==
  [svg_path |-> argv[1], output_dir |-> argv[2],
   transparency |-> IF Len(argv) > 5 THEN Lower(argv[6]) ELSE Transparent]

ParseArgs(argv) ==
  [svg_path |-> argv[1], output_dir |-> argv[2],
   transparency |-> IF Len(argv) > 5 THEN Lower(argv[6]) ELSE Opaque]

\* render_logo.py:305-327: the render target configure_render selects
ConfigureRender(output_dir, transparency) ==
  IF transparency = Transparent
    THEN [film_transparent |-> TRUE, file_format |-> "PNG",
          filepath |-> [dir |-> output_dir, stem |-> "frame_", ext |-> ""]]
    ELSE [film_transparent |-> FALSE, file_format |-> "FFMPEG",
          filepath |-> [dir |-> output_dir, stem |-> "rendered_animation", ext |-> ".mp4"]]

NoSettings ==
  [film_transparent |-> FALSE, file_format |-> "unset",
   filepath |-> [dir |-> SysTmp, stem |-> "", ext |-> ""]]

\* bpy.ops.render.render(animation=True) over frame_end frames: an image
\* format writes filepath + frame number + extension for every frame, a movie
\* format writes the one file filepath names
RenderAnimation(settings, frame_end) ==
  IF settings.file_format = "PNG"
    THEN {File(settings.filepath.dir, FileName(settings.filepath.stem, i, ".png")) :
            i \in 1..frame_end}
    ELSE {File(settings.filepath.dir,
               FileName(settings.filepath.stem, 0, settings.filepath.ext))}

\* the sixth argument as a caller may give it
TransparencyArgs ==
  {Transparent, Opaque,
   <<"T", "R", "A", "N", "S", "P", "A", "R", "E", "N", "T">>,
   <<"T", "r", "a", "n", "s", "p", "a", "r", "e", "n", "t">>,
   <<"t", "r", "u", "e">>}

ScriptArgvs ==
  LET five == {<<LogoFile(1), d, m, "0.2", "0.02">> : d \in {TempDir(1), OutputDir},
                                                      m \in {"golden", "chrome"}}
  IN five \cup {Append(a, t) : a \in five, t \in TransparencyArgs}

\* no request is in flight
NoRequests ==
  /\ kind = [r \in Reqs |-> "none"]
  /\ pc = [r \in Reqs |-> "absent"]
  /\ inp = [r \in Reqs |-> NoInput]
  /\ loc = [r \in Reqs |-> NoLoc]
  /\ resp = [r \in Reqs |-> NoResp]
  /\ procs = [r \in Reqs |-> NoProcs]
  /\ created = [r \in Reqs |-> NoCreated]
  /\ rendered = [r \in Reqs |-> {}]
  /\ env = [installed |-> {"blender"}, s3_configured |-> TRUE,
            timeout |-> [set |-> FALSE, v |-> 0]]
  /\ bucket = {}

handlerVars == <<pc, kind, inp, loc, resp, procs, created, rendered, env, bucket>>

\* blender -b -P render_logo.py -- argv, with or without the svg file in place
InitScript ==
  /\ NoRequests
  /\ call = NoCall
  /\ dirs = {SysTmp}
  /\ \E argv \in ScriptArgvs, svg \in BOOLEAN, importable \in BOOLEAN :
       /\ files = IF svg THEN {argv[1]} ELSE {}
       /\ script = [pc |-> "s_start", argv |-> argv, importable |-> importable,
                    transparency |-> <<>>, settings |-> NoSettings, written |-> {}]

\* render_logo.py:24-27
ScriptParseArgs ==
  /\ script.pc = "s_start"
  /\ LET a == ParseArgs(script.argv) IN
       script' = [script EXCEPT
                    !.transparency = a.transparency,
                    !.pc = IF a.svg_path \in files THEN "s_import" ELSE "s_exit1"]
  /\ UNCHANGED <<handlerVars, call, dirs, files>>

\* render_logo.py:29-37
ScriptImport ==
  /\ script.pc = "s_import"
  /\ script' = [script EXCEPT !.pc = IF script.importable THEN "s_configure" ELSE "s_exit1"]
  /\ UNCHANGED <<handlerVars, call, dirs, files>>

\* render_logo.py:496-497, 271-333
ScriptConfigure ==
  /\ script.pc = "s_configure"
  /\ LET a == ParseArgs(script.argv) IN
       /\ script' = [script EXCEPT
                       !.settings = ConfigureRender(a.output_dir, script.transparency),
                       !.pc = "s_render"]
       /\ dirs' = dirs \cup {a.output_dir}
  /\ UNCHANGED <<handlerVars, call, files>>

\* render_logo.py:523
ScriptRender ==
  /\ script.pc = "s_render"
  /\ \E frame_end \in 1..MaxFrames :
       LET out == RenderAnimation(script.settings, frame_end) IN
         /\ files' = files \cup out
         /\ script' = [script EXCEPT !.written = out, !.pc = "s_rendered"]
  /\ UNCHANGED <<handlerVars, call, dirs>>

NextScript ==
  \/ ScriptParseArgs
  \/ ScriptImport
  \/ ScriptConfigure
  \/ ScriptRender

SpecScript == InitScript /\ [][NextScript]_vars

\* C13: a run of render_logo.py whose transparency is 'transparent' writes a
\* frame_ numbered image sequence into the output directory; every other
\* run, one with five arguments included (transparency 'opaque'), writes the
\* single file rendered_animation.mp4 there; no run writes both.
C13_OutputConvention ==
  script.pc = "s_rendered" =>
    LET sequence == {f \in script.written : IsFrame(f.name)}
        video == {f \in script.written : f.name = VideoName}
    IN /\ Len(script.argv) = 5 => script.transparency = Opaque
       /\ \A f \in script.written : f.dir = script.argv[2] /\ f \in files
       /\ script.transparency = Transparent =>
            (sequence # {} /\ script.written = sequence)
       /\ script.transparency # Transparent => script.written = video /\ video # {}
       /\ sequence = {} \/ video = {}

C13_Witness ==
  /\ script.pc = "s_rendered"
  /\ Len(script.argv) = 5
  /\ script.written = {File(script.argv[2], VideoName)}

C13_WitnessTransparent ==
  /\ script.pc = "s_rendered"
  /\ Len(script.argv) = 6 /\ script.argv[6] # Transparent
  /\ Cardinality(script.written) = MaxFrames

\* ============================================ S3Uploader.upload_video alone
NoResult ==
  [success |-> FALSE, url |-> <<>>, presigned_url |-> <<>>, s3_key |-> <<>>,
   error |-> None]

CallUserIds == {None, "", "u1", "u2"}
CallJobIds == {None, "", "j7"}

\* upload_video(video_path, user_id, job_id) on a configured uploader
InitUpload ==
  /\ NoRequests
  /\ script = NoScript
  /\ dirs = {SysTmp}
  /\ files = {}
  /\ \E u \in CallUserIds, j \in CallJobIds, r \in Reqs :
       call = [pc |-> "u_start", user_id |-> u, job_id |-> j, stamp |-> Stamp(r),
               s3_key |-> <<>>, result |-> NoResult]

\* s3_utils.py:33-45
UploadBuildKey ==
  /\ call.pc = "u_start"
  /\ call' = [call EXCEPT !.s3_key = S3Key(call.user_id, call.job_id, call.stamp),
                          !.pc = "u_upload"]
  /\ UNCHANGED <<handlerVars, script, dirs, files>>

\* s3_utils.py:47-53, 70-85: upload_file stores the object, or raises and
\* the except clauses return
UploadFile ==
  /\ call.pc = "u_upload"
  /\ \E raises \in BOOLEAN :
       IF raises
         THEN /\ call' = [call EXCEPT
                            !.result = UploadResult(BucketName, call.user_id, call.job_id,
                                                    call.stamp, "upload_fails"),
                            !.pc = "u_returned"]
              /\ UNCHANGED bucket
         ELSE /\ bucket' = bucket \cup StoredKeys(call.user_id, call.job_id, call.stamp, "ok")
              /\ call' = [call EXCEPT !.pc = "u_presign"]
  /\ UNCHANGED <<pc, kind, inp, loc, resp, procs, created, rendered, env, script, dirs, files>>

\* s3_utils.py:55-85: generate_presigned_url returns the URL, or raises and
\* the except clauses return
UploadPresign ==
  /\ call.pc = "u_presign"
  /\ \E how \in {"ok", "presign_fails"} :
       call' = [call EXCEPT
                  !.result = UploadResult(BucketName, call.user_id, call.job_id,
                                          call.stamp, how),
                  !.pc = "u_returned"]
  /\ UNCHANGED <<handlerVars, script, dirs, files>>

NextUpload ==
  \/ UploadBuildKey
  \/ UploadFile
  \/ UploadPresign

SpecUpload == InitUpload /\ [][NextUpload]_vars

Given(x) == x # None /\ x # ""

\* C14: upload_video stores under users/{user_id}/renders/{timestamp}_{id}
\* when a non-empty user_id is given and under renders/{timestamp}_{id}
\* otherwise; _job_{job_id} follows exactly when a non-empty job_id is given;
\* the key ends in .mp4.
C14_KeyNaming ==
  call.pc \in {"u_upload", "u_presign", "u_returned"} =>
    LET key == call.s3_key
        head == IF Given(call.user_id) THEN 4 ELSE 2
    IN /\ Given(call.user_id) =>
            SubSeq(key, 1, 4) = <<"users/", call.user_id, "/renders/", call.stamp>>
       /\ ~Given(call.user_id) => SubSeq(key, 1, 2) = <<"renders/", call.stamp>>
       /\ Given(call.job_id) =>
            SubSeq(key, head + 1, Len(key)) = <<"_job_", call.job_id, ".mp4">>
       /\ ~Given(call.job_id) => SubSeq(key, head + 1, Len(key)) = <<".mp4">>
       /\ key[Len(key)] = ".mp4"
       /\ bucket \subseteq {key}
       /\ call.pc = "u_presign" => key \in bucket

C14_Witness ==
  /\ call.pc = "u_presign"
  /\ call.user_id = "" /\ call.job_id = "j7"
  /\ call.s3_key = <<"renders/", call.stamp, "_job_", "j7", ".mp4">>
  /\ call.s3_key \in bucket

\* C15: upload_video always returns: on success success=True, error None, the
\* key the file was stored under, and url = presigned_url, the 604800 s
\* signed URL of that bucket and key; on failure success=False, url,
\* presigned_url and s3_key None and a non-empty error.
C15_UploadReturns ==
  /\ call.pc \in {"none", "u_start", "u_upload", "u_presign", "u_returned"}
  /\ call.pc \in {"none", "u_returned"} \/ ENABLED NextUpload
  /\ call.pc = "u_returned" =>
       LET res == call.result IN
         IF res.success
           THEN /\ res.error = None
                /\ res.s3_key = call.s3_key
                /\ res.s3_key \in bucket
                /\ res.url = res.presigned_url
                /\ res.url = <<"https://", BucketName, "/">> \o call.s3_key
                               \o <<"?X-Amz-Expires=", "604800">>
           ELSE /\ res.url = <<>>
                /\ res.presigned_url = <<>>
                /\ res.s3_key = <<>>
                /\ Given(res.error)

C15_WitnessFailure ==
  /\ call.pc = "u_returned"
  /\ ~call.result.success
  /\ call.s3_key \in bucket
  /\ call.result.s3_key = <<>>

C15_WitnessSuccess ==
  /\ call.pc = "u_returned"
  /\ call.result.success
  /\ call.result.url = call.result.presigned_url
  /\ call.result.s3_key \in bucket

\* ============================= the handlers and the render script together
\* str(extrude_depth), str(bevel_depth); the depths are kept in thousandths
StrFloat(x) == IF x.nan THEN "nan" ELSE ToString(x.v) \o "e-3"

\* server.py:123-131 and rp_handler.py:81-88: the arguments after "--"
ScriptArgs(r) ==
  <<LogoFile(r), IF kind[r] = "http" THEN TempDir(r) ELSE OutputDir, inp[r].material,
    StrFloat(inp[r].extrude_depth), StrFloat(inp[r].bevel_depth)>>

\* what render_logo.py is configured to write when run with args
ConfiguredOutput(args, frame_end) ==
  LET a == ParseArgs(args) IN
    RenderAnimation(ConfigureRender(a.output_dir, a.transparency), frame_end)

\* r's render process ended with exit code 0 and wrote what the script is
\* configured to write for the arguments r's handler passed
RenderedAsConfigured(r) ==
  /\ loc[r].render = "ok"
  /\ \E n \in 1..MaxFrames : rendered[r] = ConfiguredOutput(ScriptArgs(r), n)

\* C16: in each handler, when the render script run with the handler's
\* arguments succeeds and has written its configured output, the handler's
\* output discovery finds it.
C16_DiscoveryFindsConfiguredOutput ==
  \A r \in Active :
    (RenderedAsConfigured(r) /\ loc[r].found # "unset") => loc[r].found = "yes"

\* C16, the part that holds: the endpoint looks for the file the script writes
\* for the endpoint's five arguments.
C16_HttpFindsConfiguredOutput ==
  \A r \in Active :
    (kind[r] = "http" /\ RenderedAsConfigured(r) /\ loc[r].found # "unset") =>
      loc[r].found = "yes"

C16_HttpFound ==
  \E r \in Active :
    kind[r] = "http" /\ RenderedAsConfigured(r) /\ loc[r].found = "yes"

\* the exit paths of POST /render, by the response that leaves
HttpExitPaths ==
  {"Invalid material", "Extrude depth must be between 0.01 and 1.0",
   "Bevel depth must be between 0.0 and 0.1", "Invalid base64 image data",
   "Blender not found", "Internal server error", "Render failed",
   "Video file not generated", "S3 upload failed", "S3 uploader not configured",
   "Render completed successfully and uploaded to S3"}

C18_RenderFailureStops ==
  \A r \in Active :
    loc[r].render = "fail" =>
      /\ pc[r] \in {"h_finally", "done"}
      /\ Rejected(r)
      /\ resp[r].msg = "Render failed"
      /\ resp[r].exc = "stderr"
      /\ kind[r] = "http" => resp[r].code = 500
      /\ loc[r].found = "unset"
      /\ loc[r].output_files = {}
      /\ loc[r].ffmpeg = "none"
      /\ procs[r].ffmpeg = 0
      /\ procs[r].upload = 0
      /\ bucket = {}

C18_Witness ==
  \E r \in Active :
    /\ Returned(r)
    /\ loc[r].render = "fail"
    /\ rendered[r] # {}
    /\ resp[r].msg = "Render failed"

CandidatePaths(r) == IF kind[r] = "http" THEN http_blender_paths ELSE rp_blender_paths
NoCandidateExists(r) == Range(CandidatePaths(r)) \cap env.installed = {}

\* cmd is the first path of the list, in list order, that exists
IsFirstExisting(cmd, paths) ==
  \E i \in 1..Len(paths) :
    /\ paths[i] = cmd
    /\ cmd \in env.installed
    /\ \A j \in 1..(i - 1) : paths[j] \notin env.installed

\* the render executable of a request that started a render process, and of
\* one that has found its executable, is the first existing candidate
ExecutableIsFirstCandidate(r) ==
  /\ loc[r].blender_cmd # None => IsFirstExisting(loc[r].blender_cmd, CandidatePaths(r))
  /\ procs[r].render > 0 => loc[r].blender_cmd # None

C19_WitnessNotFound ==
  \E r \in Active :
    /\ kind[r] = "rp" /\ Returned(r)
    /\ env.installed # {} /\ NoCandidateExists(r)
    /\ resp[r].msg = "Blender not found"
    /\ NoProcessStarted(r)

\* C20: serverless handler: a timeout of the transcoding step is reported as
\* a video-creation failure, and 'Render timed out after N seconds' is
\* returned only when the render process itself ran into its timeout.
C20_FfmpegTimeoutIsTranscodingFailure ==
  \A r \in Active :
    (kind[r] = "rp" /\ Returned(r)) =>
      /\ loc[r].ffmpeg = "timeout" =>
           (Rejected(r) /\ resp[r].msg = "Video creation failed")
      /\ resp[r].msg = "Render timed out" => loc[r].render = "timeout"

\* C20, the part that holds: a render process that runs into its timeout is
\* reported as 'Render timed out after N seconds' with the applied N.
C20_RenderTimeoutReported ==
  \A r \in Active :
    (kind[r] = "rp" /\ Returned(r) /\ loc[r].render = "timeout") =>
      /\ resp[r].msg = "Render timed out"
      /\ resp[r].exc = ToString(loc[r].timeout_seconds)

\* ================================================ two concurrent requests
\* Two requests to the same handler, both with valid parameters, on a machine
\* with the render executable and the storage credentials; their steps
\* interleave in any order.
ConcInputs(k) ==
  {i \in (IF k = "http" THEN HttpInputs ELSE RpInputs) :
     /\ i.material = "golden"
     /\ i.extrude_depth = Float(ExtrudeMin)
     /\ i.bevel_depth = Float(BevelMin)
     /\ i.logo = [given |-> TRUE, text |-> <<"A", "A", "=", "=">>]
     /\ i.user_id = (IF k = "http" THEN "u1" ELSE None)
     /\ i.job_id = None}

InitConc ==
  /\ \E k \in {"http", "rp"} :
       /\ kind = [r \in Reqs |-> k]
       /\ pc = [r \in Reqs |-> IF k = "http" THEN "h_start" ELSE "r_start"]
       /\ \E i \in ConcInputs(k) : inp = [r \in Reqs |-> i]
       /\ env = [installed |-> {"blender"}, s3_configured |-> (k = "http"),
                 timeout |-> [set |-> FALSE, v |-> 0]]
  /\ dirs = {SysTmp}
  /\ files = {}
  /\ loc = [r \in Reqs |-> NoLoc]
  /\ resp = [r \in Reqs |-> NoResp]
  /\ procs = [r \in Reqs |-> NoProcs]
  /\ created = [r \in Reqs |-> NoCreated]
  /\ rendered = [r \in Reqs |-> {}]
  /\ bucket = {}
  /\ script = NoScript
  /\ call = NoCall

SpecConc == InitConc /\ [][Next]_vars

InFlight(r) == r \in Active /\ ~Returned(r)
\* the files that are r's: its input file and what its render process wrote
Belonging(r) == (created[r].files \cup rendered[r]) \cap files

\* a step of request r touches no file of another request in flight, and
\* what r discovers in the step is what its own render process wrote
IsolatedStep(r) ==
  pc'[r] # pc[r] =>
    /\ loc'[r].output_files # loc[r].output_files =>
         \A n \in loc'[r].output_files : File(OutputDir, n) \in rendered[r]
    /\ (kind[r] = "http" /\ loc[r].found = "unset" /\ loc'[r].found = "yes") =>
         File(TempDir(r), VideoName) \in rendered[r]
    /\ \A q \in Reqs \ {r} :
         InFlight(q) =>
           /\ Belonging(q) \subseteq files'
           /\ rendered'[q] = rendered[q]

\* C11: for any interleaving of two concurrent requests to the same handler,
\* a request discovers and returns only output its own render process wrote,
\* and never deletes or overwrites a file of the other request in flight.
C11_RequestsIsolated == [][\A r \in Active : IsolatedStep(r)]_vars

\* C11, the part that holds: two concurrent POST /render requests work in
\* their own mkdtemp directories and never touch each other's files.
C11_HttpRequestsIsolated ==
  [][\A r \in Active : kind[r] = "http" => IsolatedStep(r)]_vars

\* C22: upload_video reports success=False only if the call stored no object:
\* whenever the result has success=False, the bucket holds no new object
\* from this upload, also when the transfer succeeds and signing fails.
C22_FailureStoresNothing ==
  (call.pc = "u_returned" /\ ~call.result.success) =>
    /\ call.result.s3_key = <<>>
    /\ call.s3_key \notin bucket
    /\ bucket = {}

\* C22, the part that holds: a failed upload_file stores nothing.
C22_FailedTransferStoresNothing ==
  (call.pc = "u_returned" /\ call.result.error = "upload_fails") => bucket = {}

\* ======================================= S3Uploader.delete_user_video alone
\* The characters of the strings that are joined and compared; a string the
\* comparison never has to look into stays one unit.
Spell(s) ==
  CASE s = "users/"    -> <<"u", "s", "e", "r", "s", "/">>
    [] s = "/renders/" -> <<"/", "r", "e", "n", "d", "e", "r", "s", "/">>
    [] s = "renders/"  -> <<"r", "e", "n", "d", "e", "r", "s", "/">>
    [] s = "/"         -> <<"/">>
    [] s = "u1"        -> <<"u", "1">>
    [] s = "u2"        -> <<"u", "2">>
    [] s = "u1/x"      -> <<"u", "1", "/", "x">>
    [] s = ""          -> <<>>
    [] s = None        -> <<"N", "o", "n", "e">>
    [] OTHER           -> <<s>>

\* the string a sequence of joined parts makes
RECURSIVE Joined(_)
Joined(parts) ==
  IF parts = <<>> THEN <<>> ELSE Spell(Head(parts)) \o Joined(Tail(parts))

\* str.startswith
StartsWith(s, prefix) ==
  Len(prefix) <= Len(s) /\ SubSeq(s, 1, Len(prefix)) = prefix

\* s3_utils.py:137: s3_key.startswith(f"users/{user_id}/")
OwnsKey(user_id, s3_key) ==
  StartsWith(Joined(s3_key), Joined(<<"users/", user_id, "/">>))

DeleteUserIds == CallUserIds \cup {"u1/x"}

\* delete_user_video(user_id, s3_key) for a key that upload_video stored for
\* owner; the caller and the owner are any two user ids
InitDelete ==
  /\ kind = [r \in Reqs |-> "none"]
  /\ pc = [r \in Reqs |-> "absent"]
  /\ inp = [r \in Reqs |-> NoInput]
  /\ loc = [r \in Reqs |-> NoLoc]
  /\ resp = [r \in Reqs |-> NoResp]
  /\ procs = [r \in Reqs |-> NoProcs]
  /\ created = [r \in Reqs |-> NoCreated]
  /\ rendered = [r \in Reqs |-> {}]
  /\ env = [installed |-> {"blender"}, s3_configured |-> TRUE,
            timeout |-> [set |-> FALSE, v |-> 0]]
  /\ script = NoScript
  /\ dirs = {SysTmp}
  /\ files = {}
  /\ \E owner \in DeleteUserIds, j \in CallJobIds, r \in Reqs, u \in DeleteUserIds :
       LET key == S3Key(owner, j, Stamp(r)) IN
         /\ bucket = {key}
         /\ call = [pc |-> "d_start", user_id |-> u, s3_key |-> key, owner |-> owner,
                    deletes |-> 0, returned |-> FALSE]

\* s3_utils.py:135-138: the ownership test
DeleteVerify ==
  /\ call.pc = "d_start"
  /\ call' = IF ~OwnsKey(call.user_id, call.s3_key)
               THEN [call EXCEPT !.pc = "d_returned", !.returned = FALSE]
               ELSE [call EXCEPT !.pc = "d_delete"]
  /\ UNCHANGED <<handlerVars, script, dirs, files>>

\* s3_utils.py:140-143: delete_object removes the object, or raises ClientError
DeleteObject ==
  /\ call.pc = "d_delete"
  /\ \E raises \in BOOLEAN :
       /\ bucket' = IF raises THEN bucket ELSE bucket \ {call.s3_key}
       /\ call' = [call EXCEPT !.pc = "d_returned", !.deletes = @ + 1,
                               !.returned = ~raises]
  /\ UNCHANGED <<pc, kind, inp, loc, resp, procs, created, rendered, env, script, dirs, files>>

NextDelete ==
  \/ DeleteVerify
  \/ DeleteObject

SpecDelete == InitDelete /\ [][NextDelete]_vars

\* the key was produced by upload_video for this user
ProducedFor(user_id) == Given(user_id) /\ call.owner = user_id

\* C23: delete_user_video(user_id, s3_key) issues a delete only for a key of
\* that user: for a key upload_video produced for another user_id, or for no
\* user, it returns False and deletes nothing; for a key upload_video
\* produced for the same user_id it issues the delete.
C23_DeleteVerifiesOwnership ==
  /\ call.deletes > 0 => ProducedFor(call.user_id)
  /\ (call.pc = "d_returned" /\ ~ProducedFor(call.user_id)) =>
       /\ ~call.returned
       /\ call.deletes = 0
       /\ call.s3_key \in bucket
  /\ (call.pc = "d_returned" /\ ProducedFor(call.user_id)) => call.deletes = 1

\* C23, the part that holds: when neither user id contains a '/', the
\* delete is issued exactly for the owner's own keys.
C23_SlashFreeOwnership ==
  (call.pc = "d_returned" /\ call.user_id # "u1/x" /\ call.owner # "u1/x") =>
    (call.deletes = 1 <=> ProducedFor(call.user_id))

\* ================================= render_logo.convert_png_to_webm alone
WebmName == FileName("rendered_animation_transparent", 0, ".webm")

\* render_logo.py:418-422: commands, in list order
Methods == <<"Method 1 (format filter)", "Method 2 (premultiply)", "Method 3 (simple)">>

\* what one subprocess.run of an encode does: exit 0, exit non-zero,
\* TimeoutExpired after 300 s, or another exception
EncodeOutcomes == {"ok", "fail", "timeout", "error"}
\* what input("Delete PNG sequence files? (y/n): ") does: an answer, or
\* EOFError when the process has no standard input to read
InputOutcomes == {"y", "n", "eof"}

\* convert_png_to_webm(output_dir) with or without ffmpeg, on a directory
\* that holds zero or more frames
InitConvert ==
  /\ NoRequests
  /\ call = NoCall
  /\ \E d \in {TempDir(1), OutputDir}, n \in 0..MaxFrames, ffmpeg \in BOOLEAN :
       /\ dirs = {SysTmp, d}
       /\ files = {File(d, FrameName(i)) : i \in 1..n}
       /\ script = [pc |-> "c_start", output_dir |-> d, ffmpeg |-> ffmpeg,
                    png_files |-> {}, method |-> 1, ran |-> <<>>, verified |-> {},
                    eofs |-> 0, result |-> FALSE]

\* the loop moves on to the next command, or falls out of the loop to
\* "return False" (render_logo.py:424, 463-469)
NextMethod(s) ==
  IF s.method < Len(Methods)
    THEN [s EXCEPT !.method = @ + 1, !.pc = "c_encode"]
    ELSE [s EXCEPT !.pc = "c_returned", !.result = FALSE]

\* render_logo.py:344-350
ConvertCheckFfmpeg ==
  /\ script.pc = "c_start"
  /\ script' = IF script.ffmpeg THEN [script EXCEPT !.pc = "c_glob"]
               ELSE [script EXCEPT !.pc = "c_returned", !.result = FALSE]
  /\ UNCHANGED <<handlerVars, call, dirs, files>>

\* render_logo.py:355-360
ConvertGlob ==
  /\ script.pc = "c_glob"
  /\ LET png_files == {f \in files : f.dir = script.output_dir /\ IsFrame(f.name)} IN
       script' = IF png_files = {}
                   THEN [script EXCEPT !.pc = "c_returned", !.result = FALSE]
                   ELSE [script EXCEPT !.png_files = png_files, !.pc = "c_encode"]
  /\ UNCHANGED <<handlerVars, call, dirs, files>>

\* render_logo.py:424-429, 455-462: one encode
ConvertEncode ==
  /\ script.pc = "c_encode"
  /\ \E how \in EncodeOutcomes :
       LET s == [script EXCEPT !.ran = Append(@, script.method)] IN
         IF how = "ok"
           THEN /\ script' = [s EXCEPT !.pc = "c_verify"]
                /\ files' = files \cup {File(script.output_dir, WebmName)}
           ELSE /\ script' = NextMethod(s)
                /\ UNCHANGED files
  /\ UNCHANGED <<handlerVars, call, dirs>>

\* render_logo.py:431-436, 451-454: 'yuva420p' in verify_result.stderr
ConvertVerify ==
  /\ script.pc = "c_verify"
  /\ \E alpha \in BOOLEAN :
       script' = IF alpha
                   THEN [script EXCEPT !.verified = @ \cup {script.method}, !.pc = "c_input"]
                   ELSE NextMethod(script)
  /\ UNCHANGED <<handlerVars, call, dirs, files>>

\* render_logo.py:438-450, 461-462: the prompt; its EOFError is caught by
\* "except Exception" and the loop goes on
ConvertInput ==
  /\ script.pc = "c_input"
  /\ \E response \in InputOutcomes :
       IF response = "eof"
         THEN /\ script' = NextMethod([script EXCEPT !.eofs = @ + 1])
              /\ UNCHANGED files
         ELSE /\ script' = [script EXCEPT !.pc = "c_returned", !.result = TRUE]
              /\ files' = IF response = "y" THEN files \ script.png_files ELSE files
  /\ UNCHANGED <<handlerVars, call, dirs>>

NextConvert ==
  \/ ConvertCheckFfmpeg
  \/ ConvertGlob
  \/ ConvertEncode
  \/ ConvertVerify
  \/ ConvertInput

SpecConvert == InitConvert /\ [][NextConvert]_vars

IsPrefix(s, t) == Len(s) <= Len(t) /\ s = SubSeq(t, 1, Len(s))
ConvertReturned == script.pc = "c_returned"

\* C24: convert_png_to_webm runs its methods in the order 1, 2, 3, at most
\* three encodes; it stops at the first method whose encode exits 0 and
\* whose output is verified to have alpha, returns True and runs no later
\* method; it returns False only when ffmpeg is unavailable, no frame
\* exists, or no method both succeeded and verified.
C24_MethodsInOrderUntilVerified ==
  script.pc \in {"c_start", "c_glob", "c_encode", "c_verify", "c_input", "c_returned"} =>
    /\ IsPrefix(script.ran, <<1, 2, 3>>)
    /\ \A m \in script.verified : \A k \in 1..Len(script.ran) : script.ran[k] <= m
    /\ (ConvertReturned /\ script.verified # {}) => script.result
    /\ (ConvertReturned /\ ~script.result) =>
         \/ ~script.ffmpeg
         \/ script.png_files = {}
         \/ script.verified = {}
    /\ (ConvertReturned /\ script.result) => script.verified # {}

\* C24, the part that holds: the methods run in the order 1, 2, 3, at most
\* three encodes, and when every prompt is answered the call stops at the
\* first verified method and returns True.
C24_InOrderAndStopsWhenAnswered ==
  script.pc \in {"c_start", "c_glob", "c_encode", "c_verify", "c_input", "c_returned"} =>
    /\ IsPrefix(script.ran, <<1, 2, 3>>)
    /\ script.eofs = 0 =>
         /\ \A m \in script.verified : \A k \in 1..Len(script.ran) : script.ran[k] <= m
         /\ ConvertReturned => (script.result <=> script.verified # {})

\* ============================ serverless requests handled one after another
\* The first event is valid, or has an invalid material, or has a logo that
\* cannot be decoded; the second event is valid.  /tmp/output may hold the
\* output of a run before the first.
SeqInputs ==
  {i \in RpInputs :
     /\ i.extrude_depth = Float(ExtrudeMin)
     /\ i.bevel_depth = Float(BevelMin)
     /\ \/ i.material = "golden" /\ i.logo = [given |-> TRUE, text |-> <<"A", "A", "=", "=">>]
        \/ i.material = "wood" /\ i.logo = [given |-> TRUE, text |-> <<"A", "A", "=", "=">>]
        \/ i.material = "golden" /\ i.logo = NoLogo}

InitSeq ==
  /\ kind = [r \in Reqs |-> "rp"]
  /\ pc = [r \in Reqs |-> IF r = 1 THEN "r_start" ELSE "queued"]
  /\ \E i \in SeqInputs, j \in ConcInputs("rp") :
       inp = [r \in Reqs |-> IF r = 1 THEN i ELSE j]
  /\ env = [installed |-> {"blender"}, s3_configured |-> FALSE,
            timeout |-> [set |-> FALSE, v |-> 0]]
  /\ \E stale \in BOOLEAN :
       /\ dirs = {SysTmp} \cup (IF stale THEN {OutputDir} ELSE {})
       /\ files = IF stale THEN StaleOutput ELSE {}
  /\ loc = [r \in Reqs |-> NoLoc]
  /\ resp = [r \in Reqs |-> NoResp]
  /\ procs = [r \in Reqs |-> NoProcs]
  /\ created = [r \in Reqs |-> NoCreated]
  /\ rendered = [r \in Reqs |-> {}]
  /\ bucket = {}
  /\ script = NoScript
  /\ call = NoCall

\* rp_handler.py:168-169: the worker calls handler for the next event when
\* the call for the one before has returned
RpNextEvent(r) ==
  /\ pc[r] = "queued"
  /\ \A q \in Reqs : q < r => pc[q] = "done"
  /\ pc' = Upd(pc, r, "r_start")
  /\ UNCHANGED <<lib, rendered, kind, inp, loc, resp, procs, created, dirs, files, env, bucket>>

NextSeq == \E r \in Reqs : RpStep(r) \/ RpNextEvent(r)

SpecSeq == InitSeq /\ [][NextSeq]_vars

\* r is the request being handled, or the last one handled
Latest(r) ==
  /\ r \in Active
  /\ pc[r] # "queued"
  /\ \A q \in Reqs : q > r => pc[q] \in {"queued", "absent"}
\* the frames r's own render process wrote
OwnFrames(r) == {f \in rendered[r] : IsFrame(f.name)}
FramesPresent == {f \in files : f.dir = OutputDir /\ IsFrame(f.name)}

\* C21: serverless requests handled one after another: the frames a request
\* discovers, encodes and counts in frame_count are those its own render
\* process wrote; frames that earlier requests, successful or failed, left
\* in /tmp/output are never counted or encoded.
C21_OnlyOwnFrames ==
  \A r \in Reqs :
    (Latest(r) /\ kind[r] = "rp") =>
      /\ loc[r].found # "unset" =>
           {File(OutputDir, n) : n \in loc[r].output_files} = OwnFrames(r)
      /\ pc[r] \in {"r_ffmpeg", "r_encoding", "r_read"} => FramesPresent = OwnFrames(r)
      /\ (Returned(r) /\ resp[r].status = "completed") =>
           /\ resp[r].frame_count = Cardinality(OwnFrames(r))
           /\ FramesPresent = OwnFrames(r)

\* the second request completes with one frame after the first, which
\* failed in transcoding, had left more frames behind
C21_Witness ==
  /\ Returned(1) /\ loc[1].ffmpeg = "fail"
  /\ Cardinality(loc[1].output_files) = MaxFrames
  /\ Returned(2) /\ resp[2].status = "completed"
  /\ resp[2].frame_count = 1

====
